---------------------------- MODULE Spec2Model ----------------------------
(***************************************************************************)
(* The OTP authentication server of CareerPro-AI (src/server.js): the two  *)
(* tables of the SQLite store, the two route handlers and the requests in  *)
(* flight.  Node runs one handler segment at a time: a handler runs from   *)
(* its start to its first await (or its end) without interleaving, so      *)
(* verify-otp (no await) is one step and send-otp is two (before and after *)
(* `await resend.emails.send`).                                            *)
(***************************************************************************)
EXTENDS Integers, Sequences, FiniteSets, TLC

VARIABLES
    users,      \* table users: set of rows [id, email, name, created_at]
    otps,       \* table otps: set of rows [email, otp, expires_at]
    now,        \* Date.now(), in ms since the model's epoch
    ticks,      \* number of clock advances so far (bounds the clock)
    uuids,      \* number of ids crypto.randomUUID() has produced
    jwtSecret,  \* process.env.JWT_SECRET (NoSecret when not configured)
    awaiting,   \* send-otp requests suspended at `await resend.emails.send`
    inflight,   \* verify-otp requests received, handled or not yet (SpecConc)
    hist,       \* history variable: per email, what the requests so far did
    client      \* the OTP client (App.tsx): its React state, local storage and
                \* the position of its pending handler

vars == <<users, otps, now, ticks, uuids, jwtSecret, awaiting, inflight, hist, client>>

----------------------------------------------------------------------------
(* Bounds of the model *)

MaxAwaiting == 1    \* send-otp requests suspended at the same time
MaxInflight == 3    \* verify-otp requests in flight at the same time (SpecConc)
MaxTicks == 1       \* clock advances in one behaviour
RandDen == 1000     \* Math.random() is drawn as k / RandDen, k in 0..RandDen-1

(* Program constants *)

OtpTtl == 10 * 60 * 1000            \* ms, server.js:58
TokenTtl == 30 * 24 * 60 * 60      \* s, expiresIn: '30d', server.js:120
FallbackSecret == "fallback_secret" \* server.js:119

(* Inputs *)

NoSecret == "undefined"
NoRow == [none |-> TRUE]            \* what statement.get() returns for no row
NoUser == [none |-> TRUE]
NoToken == [none |-> TRUE]
NoMail == [none |-> TRUE]
Undefined == "undefined"            \* a field absent from the JSON body
Emails == {"a@b.com", "A@b.com"}
EmailInputs == Emails \cup {""}
NameInputs == {Undefined, "Ann"}
RandNums == {0, RandDen - 1}        \* the draws of Math.random() explored
TickSteps == {OtpTtl, OtpTtl + 1}   \* ms by which the clock advances between requests

\* what the promise of resend.emails.send resolves to; the handler does not
\* look at it (the Resend client reports a failed request in the error field
\* of the resolved value)
SendResults == {[data |-> "id", error |-> "null"],
                [data |-> "null", error |-> "validation_error"]}

----------------------------------------------------------------------------
(* Strings of decimal digits are sequences over 0..9 *)

RECURSIVE ToDigits(_)
ToDigits(n) == IF n < 10 THEN <<n>> ELSE Append(ToDigits(n \div 10), n % 10)

\* Number.prototype.toString() of a non-negative integer
NumToString(n) == ToDigits(n)

\* mutant: Math.floor(Math.random() * 1000000).toString(), without padding
generateOTP_Unpadded(k) == NumToString((k * 1000000) \div RandDen)

\* Math.floor(100000 + Math.random() * 900000).toString(), Math.random() = k/RandDen
generateOTP(k) == NumToString(100000 + ((k * 900000) \div RandDen))

\* every code the generator can return, Math.random() ranging over [0, 1)
GeneratorRange == {generateOTP(k) : k \in 0..(RandDen - 1)}

GeneratedCodes == {generateOTP(k) : k \in RandNums}
OtpInputs == GeneratedCodes \cup {<<>>}

\* mutant: only an absent field is falsy, the empty string passes
Truthy_EmptyPasses(v) == v # Undefined

\* JavaScript truthiness of a body field: absent and the empty string are falsy
Truthy(v) == v # Undefined /\ v # ""

\* mutant: the code field is not looked at
TruthyDigits_Any(v) == TRUE

\* the same for a field holding a string of digits (<<>> is the empty string)
TruthyDigits(v) == v # <<>>

----------------------------------------------------------------------------
(* The store: prepared statements of better-sqlite3, each one atomic *)

\* mutant: INSERT OR IGNORE, an existing row for the email is kept
upsertOTP_Ignore(tbl, email, otp, expiresAt) ==
    IF \E row \in tbl : row.email = email
    THEN tbl
    ELSE tbl \cup {[email |-> email, otp |-> otp, expires_at |-> expiresAt]}

\* mutant: an existing row gets the new code and keeps its expiry
upsertOTP_KeepExpiry(tbl, email, otp, expiresAt) ==
    {row \in tbl : row.email # email}
        \cup {[email |-> email, otp |-> otp,
               expires_at |-> IF \E row \in tbl : row.email = email
                              THEN (CHOOSE row \in tbl : row.email = email).expires_at
                              ELSE expiresAt]}

\* mutant: the table is emptied before the new row is stored
upsertOTP_Reset(tbl, email, otp, expiresAt) ==
    {[email |-> email, otp |-> otp, expires_at |-> expiresAt]}

\* mutant: a plain INSERT into a table without the primary key
upsertOTP_Append(tbl, email, otp, expiresAt) ==
    tbl \cup {[email |-> email, otp |-> otp, expires_at |-> expiresAt]}

\* INSERT OR REPLACE INTO otps (email, otp, expires_at): email is the primary key
upsertOTP(tbl, email, otp, expiresAt) ==
    {row \in tbl : row.email # email}
        \cup {[email |-> email, otp |-> otp, expires_at |-> expiresAt]}

\* SELECT * FROM otps WHERE email = ?  (.get(): first row or undefined)
getOTP(tbl, email) ==
    IF \E row \in tbl : row.email = email
    THEN CHOOSE row \in tbl : row.email = email
    ELSE NoRow

\* mutant: the row is not deleted
deleteOTP_Keep(tbl, email) == tbl

\* mutant: DELETE FROM otps without the WHERE clause
deleteOTP_All(tbl, email) == {}

\* DELETE FROM otps WHERE email = ?
deleteOTP(tbl, email) == {row \in tbl : row.email # email}

\* mutant: a rejected verification removes the challenge it looked at
rejectOTP_Sweep(tbl, email) == deleteOTP(tbl, email)

\* the branch that rejects a verification runs no statement: the table stays
rejectOTP(tbl, email) == tbl

\* mutant: the lookup finds nothing
getUser_Miss(tbl, email) == NoRow

\* SELECT * FROM users WHERE email = ?
getUser(tbl, email) ==
    IF \E row \in tbl : row.email = email
    THEN CHOOSE row \in tbl : row.email = email
    ELSE NoRow

\* users.id is PRIMARY KEY and users.email is UNIQUE: the insert throws on either
InsertConflict(tbl, id, email) == \E row \in tbl : row.id = id \/ row.email = email

\* mutant: the statement stores nothing
insertUser_Skip(tbl, id, email, name, createdAt) == tbl

\* mutant: the statement leaves only the new row in the table
insertUser_Truncate(tbl, id, email, name, createdAt) ==
    {[id |-> id, email |-> email, name |-> name, created_at |-> createdAt]}

\* INSERT INTO users (id, email, name, created_at) VALUES (?, ?, ?, ?)
insertUser(tbl, id, email, name, createdAt) ==
    tbl \cup {[id |-> id, email |-> email, name |-> name, created_at |-> createdAt]}

\* mutant: the generator returns the same id every time
randomUUID_Fixed(n) == 1

\* crypto.randomUUID(): an id never produced before
randomUUID(n) == n + 1

\* mutant: the stored row is returned with the name of this request
resolveUser_Rename(found, created) ==
    IF found = NoRow THEN created ELSE [found EXCEPT !.name = created.name]

\* let user = getUser.get(email); if (!user) { ... user = {id: userId, ...} }
resolveUser(found, created) == IF found = NoRow THEN created ELSE found

\* name || ''
NameOrEmpty(name) == IF Truthy(name) THEN name ELSE ""

\* mutant: the record counts as expired at the instant of its expiry
OtpRejected_AtBoundary(record, otp, t) ==
    record = NoRow \/ record.otp # otp \/ record.expires_at <= t

\* mutant: the expiry comparison is the wrong way round
OtpRejected_Inverted(record, otp, t) ==
    record = NoRow \/ record.otp # otp \/ record.expires_at > t

\* mutant: the submitted code is not compared
OtpRejected_NoCompare(record, otp, t) ==
    record = NoRow \/ record.expires_at < t

\* mutant: the expiry is not looked at
OtpRejected_NoExpiry(record, otp, t) ==
    record = NoRow \/ record.otp # otp

\* the record is absent, its code differs (!==), or it expired before now
OtpRejected(record, otp, t) ==
    record = NoRow \/ record.otp # otp \/ record.expires_at < t

\* process.env.JWT_SECRET || 'fallback_secret'
SigningKey(secret) == IF secret # NoSecret THEN secret ELSE FallbackSecret

\* mutant: the token's email claim is left empty
jwtSign_NoEmail(user, key, t) ==
    [id |-> user.id, email |-> "", iat |-> t \div 1000,
     exp |-> (t \div 1000) + TokenTtl, key |-> key]

\* mutant: the validity window is counted from the user's creation
jwtSign_FromCreation(user, key, t) ==
    [id |-> user.id, email |-> user.email, iat |-> t \div 1000,
     exp |-> (user.created_at \div 1000) + TokenTtl, key |-> key]

\* jwt.sign({id, email}, key, {expiresIn: '30d'}): iat is in seconds
jwtSign(user, key, t) ==
    [id |-> user.id, email |-> user.email, iat |-> t \div 1000,
     exp |-> (t \div 1000) + TokenTtl, key |-> key]

----------------------------------------------------------------------------
(* Requests and responses *)

\* mutant: the status set before the throw is lost
ErrorStatus_Lost(statusCode) == 500

\* Express's handling of a thrown error: the status the handler set when it is
\* an error status, 500 otherwise
ErrorStatus(statusCode) == IF statusCode >= 400 THEN statusCode ELSE 500

\* the handler throws: asyncHandler passes the error to Express
Throw(kind, email, otp, name, statusCode, message, ops) ==
    [kind |-> kind, email |-> email, otp |-> otp, name |-> name,
     status |-> ErrorStatus(statusCode), message |-> message,
     user |-> NoUser, token |-> NoToken, ops |-> ops]

\* res.status(200).json({...})
Reply(kind, email, otp, name, message, user, token, ops) ==
    [kind |-> kind, email |-> email, otp |-> otp, name |-> name,
     status |-> 200, message |-> message,
     user |-> user, token |-> token, ops |-> ops]

NoRequest == [kind |-> "none"]

\* process.env.NODE_ENV
NodeEnvs == {Undefined, "production"}

\* What the client is sent.  A reply is res.json(...).  A thrown error is
\* passed on by asyncHandler; no error-handling middleware is registered, so
\* Express's final handler answers: an HTML page, carrying the error's stack
\* unless NODE_ENV is production (then the status text).
Delivered(res, env) ==
    IF res.status < 400
    THEN [status |-> res.status, contentType |-> "application/json",
          shape |-> "message-user-token", stack |-> FALSE]
    ELSE [status |-> res.status, contentType |-> "text/html",
          shape |-> IF env = "production" THEN "status-text" ELSE "error-stack",
          stack |-> env # "production"]

\* the sequence s without its i-th element
RemoveAt(s, i) == SubSeq(s, 1, i - 1) \o SubSeq(s, i + 1, Len(s))

----------------------------------------------------------------------------
(* The handlers, as what they do to the state they run in.  Each gives the *)
(* response (res), the tables it leaves and the store operations it made.  *)

\* mutant: send-otp looks the email up and refuses one without a user row
sendOtp_KnownOnly(email, k) ==
    IF ~Truthy(email)
    THEN [thrown |-> TRUE,
          res |-> Throw("send-otp", email, <<>>, Undefined, 400, "Email is required", <<>>),
          otps |-> otps, mail |-> NoMail]
    ELSE IF getUser(users, email) = NoRow
    THEN [thrown |-> TRUE,
          res |-> Throw("send-otp", email, <<>>, Undefined, 404, "No such user",
                        <<"getUser">>),
          otps |-> otps, mail |-> NoMail]
    ELSE [thrown |-> FALSE, res |-> NoRequest,
          otps |-> upsertOTP(otps, email, generateOTP(k), now + OtpTtl),
          mail |-> [to |-> email, otp |-> generateOTP(k)]]

\* POST /api/auth/send-otp, from its start to `await resend.emails.send(...)`;
\* k is the draw of Math.random().  The body's name only fills the greeting of
\* the e-mail, which the model does not look into.
sendOtp(email, k) ==
    IF ~Truthy(email)
    THEN [thrown |-> TRUE,
          res |-> Throw("send-otp", email, <<>>, Undefined, 400, "Email is required", <<>>),
          otps |-> otps, mail |-> NoMail]
    ELSE LET otp == generateOTP(k)
             expiresAt == now + OtpTtl
         IN [thrown |-> FALSE, res |-> NoRequest,
             otps |-> upsertOTP(otps, email, otp, expiresAt),
             mail |-> [to |-> email, otp |-> otp]]

\* mutant: the 200 response returns the code along with the message
sendOtpResolved_EchoCode(m, result) ==
    Reply("send-otp", m.to, <<>>, Undefined, "OTP sent successfully",
          [code |-> m.otp], NoToken, <<"upsertOTP", "send">>)

\* send-otp after the await: the promise resolved, to a value that is dropped
sendOtpResolved(m, result) ==
    Reply("send-otp", m.to, <<>>, Undefined, "OTP sent successfully",
          NoUser, NoToken, <<"upsertOTP", "send">>)

\* send-otp after the await: the promise rejected
sendOtpRejected(m) ==
    Throw("send-otp", m.to, <<>>, Undefined, 200, "delivery failed",
          <<"upsertOTP", "send">>)

\* POST /api/auth/verify-otp: the whole handler (it never awaits).
\* t2 is the second reading of Date.now() (line 115), no earlier than the first.
verifyOtp(email, otp, name, t2) ==
    LET record == getOTP(otps, email)
        found == getUser(users, email)
        userId == randomUUID(uuids)
        created == [id |-> userId, email |-> email, name |-> name, created_at |-> t2]
        user == resolveUser(found, created)
        token == jwtSign(user, SigningKey(jwtSecret), t2)
        same == [otps |-> otps, users |-> users, uuids |-> uuids]
    IN
    IF ~Truthy(email) \/ ~TruthyDigits(otp)
    THEN [res |-> Throw("verify-otp", email, otp, name, 400,
                        "Email and OTP are required", <<>>)] @@ same
    ELSE IF OtpRejected(record, otp, now)
    THEN [res |-> Throw("verify-otp", email, otp, name, 401,
                        "Invalid or expired OTP", <<"getOTP">>),
          otps |-> rejectOTP(otps, email), users |-> users, uuids |-> uuids]
    ELSE IF found # NoRow
    THEN [res |-> Reply("verify-otp", email, otp, name, "Authentication successful",
                        user, token, <<"getOTP", "deleteOTP", "getUser", "sign">>),
          otps |-> deleteOTP(otps, email), users |-> users, uuids |-> uuids]
    ELSE IF InsertConflict(users, userId, email)
    THEN [res |-> Throw("verify-otp", email, otp, name, 200, "UNIQUE constraint failed",
                        <<"getOTP", "deleteOTP", "getUser", "insertUser">>),
          otps |-> deleteOTP(otps, email), users |-> users, uuids |-> uuids + 1]
    ELSE [res |-> Reply("verify-otp", email, otp, name, "Authentication successful",
                        user, token,
                        <<"getOTP", "deleteOTP", "getUser", "insertUser", "sign">>),
          otps |-> deleteOTP(otps, email),
          users |-> insertUser(users, userId, email, NameOrEmpty(name), now),
          uuids |-> uuids + 1]

\* whether the handler reads Date.now() a second time (lines 114-115)
Registers(email, otp) ==
    /\ Truthy(email) /\ TruthyDigits(otp)
    /\ ~OtpRejected(getOTP(otps, email), otp, now)
    /\ getUser(users, email) = NoRow

----------------------------------------------------------------------------
(* History, per email: the code the latest send-otp stored and the time of  *)
(* that request, unless a verification consumed it since (live), the code a *)
(* verification consumed                                                    *)
(* with no send-otp since (consumed), the different code of the challenge   *)
(* that the live one replaced (replaced), and the user id the latest        *)
(* successful verification returned (uid).                                  *)

NoHistory == [live |-> NoRow, consumed |-> <<>>, replaced |-> <<>>, uid |-> 0]

HistSent(h, otp, at) ==
    [h EXCEPT !.replaced = IF h.live = NoRow \/ h.live.otp = otp
                           THEN <<>> ELSE h.live.otp,
              !.live = [otp |-> otp, at |-> at],
              !.consumed = <<>>]

HistVerified(h, res) ==
    IF res.status = 200
    THEN [h EXCEPT !.live = NoRow, !.consumed = res.otp, !.replaced = <<>>,
                   !.uid = res.user.id]
    ELSE h

\* History of a request in flight: the expiry of the stored challenge that
\* carried its code when it was received (-1: none did), and whether a send-otp
\* for its email was handled since
MatchedExpiry(email, otp) ==
    IF \E row \in otps : row.email = email /\ row.otp = otp
    THEN (CHOOSE row \in otps : row.email = email /\ row.otp = otp).expires_at
    ELSE -1

MarkResent(reqs, email) ==
    [i \in 1..Len(reqs) |->
        IF reqs[i].email = email THEN [reqs[i] EXCEPT !.resent = TRUE] ELSE reqs[i]]

----------------------------------------------------------------------------
(* The OTP client, src/src/App.tsx: the auth state of the App component,    *)
(* the auth_token item of local storage, and the position of the one        *)
(* handler that can be pending (the submit buttons are disabled while       *)
(* isVerifying).  email, name and otp are the form fields as they were when *)
(* the form was submitted.                                                  *)

Null == "null"
NoResponse == [none |-> TRUE]
NetworkError == [failed |-> TRUE]

\* what the forms let through: both inputs of the e-mail form are `required`,
\* the name field is shown in register mode only, and the verify button is
\* disabled while the code has fewer than 6 characters
ClientEmails == {"a@b.com"}
ClientNames == {"", "Ann"}

\* useState(...) of lines 41 and 56-62; local storage without auth_token
ClientInit ==
    [isLoggedIn |-> FALSE, isOtpSent |-> FALSE, isVerifying |-> FALSE,
     authError |-> Null, auth_token |-> NoToken,
     email |-> "", name |-> "", otp |-> <<>>,
     pc |-> "idle", slot |-> 0, response |-> NoResponse]

\* what fetch resolves to for a response of the server
Fetched(res, env) ==
    [status |-> Delivered(res, env).status,
     contentType |-> Delivered(res, env).contentType,
     message |-> res.message, token |-> res.token]

\* response.ok
Ok(response) == response.status \in 200..299

\* error.message of what `await response.json()` gives or throws, data.message
\* being a non-empty string in every JSON body of this server
JsonMessageOr(response, fallback) ==
    IF response.contentType # "application/json" THEN "Unexpected token <"
    ELSE IF response.message # "" THEN response.message
    ELSE fallback

\* handleAuthSubmit up to its await
handleAuthSubmit(c, email, name) ==
    [c EXCEPT !.authError = Null, !.isVerifying = TRUE,
              !.email = email, !.name = name, !.pc = "send-otp"]

\* mutant: the response's status is not looked at
handleAuthSubmitSettled_NoOkCheck(c, outcome) ==
    [c EXCEPT !.isOtpSent = TRUE, !.isVerifying = FALSE,
              !.pc = "idle", !.slot = 0, !.response = NoResponse]

\* handleAuthSubmit after its await: try, catch and finally
handleAuthSubmitSettled(c, outcome) ==
    LET done == [c EXCEPT !.isVerifying = FALSE, !.pc = "idle", !.slot = 0,
                          !.response = NoResponse]
    IN IF outcome = NetworkError
       THEN [done EXCEPT !.authError = "Failed to fetch"]
       ELSE IF ~Ok(outcome)
       THEN [done EXCEPT !.authError = JsonMessageOr(outcome, "Failed to send OTP")]
       ELSE [done EXCEPT !.isOtpSent = TRUE]

\* handleVerifyOTP up to its await
handleVerifyOTP(c, otp) ==
    [c EXCEPT !.authError = Null, !.isVerifying = TRUE, !.otp = otp,
              !.pc = "verify-otp"]

\* mutant: the response's status is not looked at
handleVerifyOTPSettled_NoOkCheck(c, outcome) ==
    LET done == [c EXCEPT !.isVerifying = FALSE, !.pc = "idle", !.response = NoResponse]
    IN IF outcome = NetworkError
       THEN [done EXCEPT !.authError = "Failed to fetch"]
       ELSE [done EXCEPT !.auth_token = outcome.token, !.isLoggedIn = TRUE]

\* handleVerifyOTP after its await: response.json() comes before the test of
\* response.ok
handleVerifyOTPSettled(c, outcome) ==
    LET done == [c EXCEPT !.isVerifying = FALSE, !.pc = "idle", !.response = NoResponse]
    IN IF outcome = NetworkError
       THEN [done EXCEPT !.authError = "Failed to fetch"]
       ELSE IF outcome.contentType # "application/json" \/ ~Ok(outcome)
       THEN [done EXCEPT !.authError = JsonMessageOr(outcome, "Invalid OTP")]
       ELSE [done EXCEPT !.auth_token = outcome.token, !.isLoggedIn = TRUE]

----------------------------------------------------------------------------
(* The state after start-up on a new database file *)

Init ==
    /\ users = {}
    /\ otps = {}
    /\ now = 0
    /\ ticks = 0
    /\ uuids = 0
    /\ jwtSecret \in {NoSecret, "s3cret"}
    /\ awaiting = <<>>
    /\ inflight = <<>>
    /\ hist = [e \in Emails |-> NoHistory]
    /\ client = ClientInit

\* time passes
Tick(d) ==
    /\ ticks < MaxTicks
    /\ now' = now + d
    /\ ticks' = ticks + 1
    /\ UNCHANGED <<users, otps, uuids, jwtSecret, awaiting, inflight, hist>>

\* a send-otp request is handled up to its await
SendOtp(email, k) ==
    LET r == sendOtp(email, k) IN
    /\ ~r.thrown => Len(awaiting) < MaxAwaiting
    /\ otps' = r.otps
    /\ awaiting' = IF r.thrown THEN awaiting ELSE Append(awaiting, r.mail)
    /\ hist' = IF r.thrown THEN hist
               ELSE [hist EXCEPT ![email] = HistSent(@, r.mail.otp, now)]
    /\ inflight' = IF r.thrown THEN inflight ELSE MarkResent(inflight, email)
    /\ UNCHANGED <<users, now, ticks, uuids, jwtSecret>>

\* the promise of resend.emails.send resolves: the handler answers 200
DeliveryResolves(i, result) ==
    /\ sendOtpResolved(awaiting[i], result).status = 200
    /\ awaiting' = RemoveAt(awaiting, i)
    /\ UNCHANGED <<users, otps, now, ticks, uuids, jwtSecret, inflight, hist>>

\* the promise rejects: the handler throws out of the await
DeliveryRejects(i) ==
    /\ sendOtpRejected(awaiting[i]).status >= 400
    /\ awaiting' = RemoveAt(awaiting, i)
    /\ UNCHANGED <<users, otps, now, ticks, uuids, jwtSecret, inflight, hist>>

\* the verify-otp handler runs on a request, from its start to its end
RunVerifyOtp(email, otp, name, t2) ==
    LET r == verifyOtp(email, otp, name, t2) IN
    /\ t2 > now => Registers(email, otp) /\ ticks < MaxTicks
    /\ otps' = r.otps
    /\ users' = r.users
    /\ uuids' = r.uuids
    /\ now' = t2
    /\ ticks' = IF t2 > now THEN ticks + 1 ELSE ticks
    /\ hist' = IF email \in Emails
               THEN [hist EXCEPT ![email] = HistVerified(@, r.res)]
               ELSE hist
    /\ UNCHANGED <<jwtSecret, awaiting>>

\* a verify-otp request is received and handled at once
VerifyOtp(email, otp, name, t2) ==
    /\ RunVerifyOtp(email, otp, name, t2)
    /\ UNCHANGED inflight

\* a verify-otp request is received; its handler has not started
ReceiveVerifyOtp(email, otp, name) ==
    /\ Len(inflight) < MaxInflight
    /\ inflight' = Append(inflight, [email |-> email, otp |-> otp, name |-> name,
                                     status |-> 0, resent |-> FALSE,
                                     exp |-> MatchedExpiry(email, otp)])
    /\ UNCHANGED <<users, otps, now, ticks, uuids, jwtSecret, awaiting, hist>>

\* the handler of a received verify-otp request runs
HandleVerifyOtp(i, t2) ==
    LET q == inflight[i] IN
    /\ q.status = 0
    /\ RunVerifyOtp(q.email, q.otp, q.name, t2)
    /\ inflight' = [inflight EXCEPT
                       ![i].status = verifyOtp(q.email, q.otp, q.name, t2).res.status]

Next ==
    \/ \E d \in TickSteps : Tick(d) /\ UNCHANGED client
    \/ \E email \in EmailInputs, k \in RandNums : SendOtp(email, k) /\ UNCHANGED client
    \/ \E i \in 1..Len(awaiting), result \in SendResults :
           DeliveryResolves(i, result) /\ UNCHANGED client
    \/ \E i \in 1..Len(awaiting) : DeliveryRejects(i) /\ UNCHANGED client
    \/ \E email \in EmailInputs, otp \in OtpInputs, name \in NameInputs,
          t2 \in {now, now + 1} : VerifyOtp(email, otp, name, t2) /\ UNCHANGED client

Spec == Init /\ [][Next]_vars

\* Requests for one email, the verify-otp requests received before they are
\* handled, so that several are in flight together
ConcEmails == {"a@b.com"}
ConcNames == {"Ann"}

NextConc ==
    \/ \E d \in TickSteps : Tick(d) /\ UNCHANGED client
    \/ \E email \in ConcEmails, k \in RandNums : SendOtp(email, k) /\ UNCHANGED client
    \/ \E i \in 1..Len(awaiting), result \in SendResults :
           DeliveryResolves(i, result) /\ UNCHANGED client
    \/ \E i \in 1..Len(awaiting) : DeliveryRejects(i) /\ UNCHANGED client
    \/ \E email \in ConcEmails, otp \in GeneratedCodes, name \in ConcNames :
           ReceiveVerifyOtp(email, otp, name) /\ UNCHANGED client
    \/ \E i \in 1..Len(inflight), t2 \in {now, now + 1} :
           HandleVerifyOtp(i, t2) /\ UNCHANGED client

SpecConc == Init /\ [][NextConc]_vars

\* The client and the server together: the server handles the requests of the
\* one client, whose fetch can also fail at any point while it is pending.
server == <<users, otps, now, ticks, uuids, jwtSecret, awaiting, inflight, hist>>

Pending == {"send-otp", "send-await", "send-response", "verify-otp", "verify-response"}

\* the e-mail form is submitted (shown while logged out and no code was sent)
SubmitAuth(email, name) ==
    /\ client.pc = "idle"
    /\ ~client.isLoggedIn /\ ~client.isOtpSent /\ ~client.isVerifying
    /\ client' = handleAuthSubmit(client, email, name)
    /\ UNCHANGED server

\* the server handles the client's send-otp request up to its await
ServeSendOtp(k, env) ==
    /\ client.pc = "send-otp"
    /\ SendOtp(client.email, k)
    /\ client' = IF sendOtp(client.email, k).thrown
                 THEN [client EXCEPT !.pc = "send-response",
                          !.response = Fetched(sendOtp(client.email, k).res, env)]
                 ELSE [client EXCEPT !.pc = "send-await", !.slot = Len(awaiting) + 1]

\* the delivery of the client's request resolves and the server answers
ServeDeliveryResolves(result, env) ==
    /\ client.pc = "send-await"
    /\ DeliveryResolves(client.slot, result)
    /\ client' = [client EXCEPT !.pc = "send-response", !.slot = 0,
                      !.response = Fetched(sendOtpResolved(awaiting[client.slot], result), env)]

\* the delivery of the client's request rejects and the server answers
ServeDeliveryRejects(env) ==
    /\ client.pc = "send-await"
    /\ DeliveryRejects(client.slot)
    /\ client' = [client EXCEPT !.pc = "send-response", !.slot = 0,
                      !.response = Fetched(sendOtpRejected(awaiting[client.slot]), env)]

\* a delivery ends whose request the client no longer waits for
AbandonedDelivery(i) ==
    /\ i # client.slot
    /\ \/ \E result \in SendResults : DeliveryResolves(i, result)
       \/ DeliveryRejects(i)
    /\ client' = [client EXCEPT !.slot = IF i < @ THEN @ - 1 ELSE @]

\* the response of send-otp arrives
AuthSettles ==
    /\ client.pc = "send-response"
    /\ client' = handleAuthSubmitSettled(client, client.response)
    /\ UNCHANGED server

\* the code form is submitted (shown while logged out and a code was sent)
SubmitVerify(otp) ==
    /\ client.pc = "idle"
    /\ ~client.isLoggedIn /\ client.isOtpSent /\ ~client.isVerifying
    /\ client' = handleVerifyOTP(client, otp)
    /\ UNCHANGED server

\* the server handles the client's verify-otp request
ServeVerifyOtp(t2, env) ==
    /\ client.pc = "verify-otp"
    /\ VerifyOtp(client.email, client.otp, client.name, t2)
    /\ client' = [client EXCEPT !.pc = "verify-response",
                      !.response = Fetched(verifyOtp(client.email, client.otp,
                                                     client.name, t2).res, env)]

\* the response of verify-otp arrives
VerifySettles ==
    /\ client.pc = "verify-response"
    /\ client' = handleVerifyOTPSettled(client, client.response)
    /\ UNCHANGED server

\* the pending fetch rejects: the request or its response is lost
FetchFails ==
    /\ client.pc \in Pending
    /\ client' = IF client.pc \in {"send-otp", "send-await", "send-response"}
                 THEN handleAuthSubmitSettled(client, NetworkError)
                 ELSE handleVerifyOTPSettled(client, NetworkError)
    /\ UNCHANGED server

\* 'Use a different email': setIsOtpSent(false)
UseDifferentEmail ==
    /\ ~client.isLoggedIn /\ client.isOtpSent
    /\ client' = [client EXCEPT !.isOtpSent = FALSE]
    /\ UNCHANGED server

\* the sign-out button: setIsLoggedIn(false)
SignOut ==
    /\ client.isLoggedIn
    /\ client' = [client EXCEPT !.isLoggedIn = FALSE]
    /\ UNCHANGED server

NextClient ==
    \/ \E d \in TickSteps : Tick(d) /\ UNCHANGED client
    \/ \E email \in ClientEmails, name \in ClientNames : SubmitAuth(email, name)
    \/ \E k \in RandNums, env \in NodeEnvs : ServeSendOtp(k, env)
    \/ \E result \in SendResults, env \in NodeEnvs : ServeDeliveryResolves(result, env)
    \/ \E env \in NodeEnvs : ServeDeliveryRejects(env)
    \/ \E i \in 1..Len(awaiting) : AbandonedDelivery(i)
    \/ AuthSettles
    \/ \E otp \in GeneratedCodes : SubmitVerify(otp)
    \/ \E t2 \in {now, now + 1}, env \in NodeEnvs : ServeVerifyOtp(t2, env)
    \/ VerifySettles
    \/ FetchFails
    \/ UseDifferentEmail
    \/ SignOut

SpecClient == Init /\ [][NextClient]_vars

----------------------------------------------------------------------------
(* Properties *)

TenMinutes == 10 * 60 * 1000
Rejection == "Invalid or expired OTP"
ClockReadings == {now, now + 1}

\* a user row for the email is in the table
HasUser(tbl, email) == \E u \in tbl : u.email = email

\* a challenge row for the email is in the table
HasChallenge(tbl, email) == \E row \in tbl : row.email = email

\* the handler's trace of store operations begins with these, in this order
BeginsWith(ops, prefix) ==
    Len(ops) >= Len(prefix) /\ SubSeq(ops, 1, Len(prefix)) = prefix

\* C1: a token is issued only by a verify-otp request that, in this order, read
\* a stored challenge for its email with the submitted code and not expired,
\* deleted that challenge and resolved the user for the email; a request that
\* fails presence or challenge validation creates no user and mints no token;
\* no response of send-otp carries a token.
C1_TokenOnlyAfterValidation ==
    /\ \A email \in EmailInputs, otp \in OtpInputs, name \in NameInputs,
          t2 \in ClockReadings :
           LET r == verifyOtp(email, otp, name, t2) IN
           /\ r.res.token # NoToken =>
                 /\ r.res.status = 200
                 /\ \E row \in otps : /\ row.email = email
                                      /\ row.otp = otp
                                      /\ ~(now > row.expires_at)
                 /\ ~HasChallenge(r.otps, email)
                 /\ \E u \in r.users : u.email = email /\ u.id = r.res.user.id
                 /\ r.res.token.id = r.res.user.id
                 /\ BeginsWith(r.res.ops, <<"getOTP", "deleteOTP", "getUser">>)
                 /\ r.res.ops[Len(r.res.ops)] = "sign"
           /\ r.res.status \in {400, 401} =>
                 /\ r.users = users
                 /\ r.uuids = uuids
                 /\ r.res.token = NoToken
                 /\ r.res.user = NoUser
    /\ \A email \in EmailInputs, k \in RandNums :
           LET r == sendOtp(email, k) IN
           /\ r.thrown => r.res.token = NoToken
           /\ ~r.thrown => /\ \A result \in SendResults :
                                  sendOtpResolved(r.mail, result).token = NoToken
                           /\ sendOtpRejected(r.mail).token = NoToken

\* C1 witness: a verification has consumed a challenge and returned a user
C1_Witness ==
    \E e \in Emails : /\ hist[e].consumed # <<>>
                      /\ hist[e].uid # 0
                      /\ HasUser(users, e)
                      /\ ~HasChallenge(otps, e)

\* C2: once a verify-otp for an email has succeeded with a code, and no
\* send-otp for the email was handled since, every verify-otp for the email
\* with that code is answered 401 'Invalid or expired OTP'.
C2_SingleUse ==
    \A e \in Emails :
        hist[e].consumed # <<>> =>
            \A name \in NameInputs, t2 \in ClockReadings :
                LET r == verifyOtp(e, hist[e].consumed, name, t2) IN
                /\ r.res.status = 401
                /\ r.res.message = Rejection

\* C2 witness: a code was consumed and the clock has not moved since start-up,
\* so the ten minutes of every code issued so far have not passed
C2_Witness ==
    \E e \in Emails : hist[e].consumed # <<>> /\ now = 0

\* C3 as claimed: after a second send-otp for an email, a verify-otp with the
\* code of the challenge it replaced fails, for every pair of codes.
C3_SupersessionAnyPair ==
    [][\A e \in Emails, k \in RandNums, c1 \in GeneratedCodes :
          (SendOtp(e, k) /\ hist[e].live # NoRow /\ hist[e].live.otp = c1)
              => (\A name \in NameInputs :
                      verifyOtp(e, c1, name, now).res.status = 401)']_vars

\* C3 amended: after a second send-otp for an email that stored a code different
\* from the one it replaced, every verify-otp with the replaced code is answered
\* 401 'Invalid or expired OTP', until the next send-otp or successful
\* verification for the email, although the replaced code has not expired.
C3_Supersession ==
    \A e \in Emails :
        hist[e].replaced # <<>> =>
            \A name \in NameInputs, t2 \in ClockReadings :
                LET r == verifyOtp(e, hist[e].replaced, name, t2) IN
                /\ r.res.status = 401
                /\ r.res.message = Rejection

\* C3 witness: a challenge was replaced by one with another code before any
\* time passed
C3_Witness ==
    \E e \in Emails : /\ hist[e].replaced # <<>>
                      /\ hist[e].live # NoRow
                      /\ hist[e].live.otp # hist[e].replaced
                      /\ now = 0

\* C4: a verify-otp that submits the stored code later than ten minutes after
\* the send-otp that stored it is answered 401 'Invalid or expired OTP',
\* creates no user and issues no token.
C4_Expiry ==
    \A e \in Emails :
        (hist[e].live # NoRow /\ now > hist[e].live.at + TenMinutes) =>
            \A name \in NameInputs, t2 \in ClockReadings :
                LET r == verifyOtp(e, hist[e].live.otp, name, t2) IN
                /\ r.res.status = 401
                /\ r.res.message = Rejection
                /\ r.users = users
                /\ r.res.token = NoToken

\* C4 witness: the stored code is the one submitted and its ten minutes are over
C4_Witness ==
    \E e \in Emails, row \in otps :
        /\ hist[e].live # NoRow
        /\ row.email = e /\ row.otp = hist[e].live.otp
        /\ now > hist[e].live.at + TenMinutes

\* the received requests that submit the same email and code as request i
SameSubmission(i) ==
    {j \in 1..Len(inflight) :
        /\ inflight[j].email = inflight[i].email
        /\ inflight[j].otp = inflight[i].otp}

\* the requests of the set were all received while their code was the stored
\* one, no send-otp for their email was handled since, and the code has not
\* expired
Concurrent(G) ==
    \A j \in G : /\ inflight[j].exp # -1
                 /\ ~(now > inflight[j].exp)
                 /\ ~inflight[j].resent

\* C5: of N >= 2 verify-otp requests received for one email with the same
\* correct, unexpired code before any of them is handled or while the code is
\* still stored, once all are answered exactly one got 200 and the others 401,
\* in whatever order their handlers ran; each handler's read, compare and delete
\* is one step.
C5_ConcurrentVerify ==
    \A i \in 1..Len(inflight) :
        LET G == SameSubmission(i) IN
        (Cardinality(G) >= 2 /\ Concurrent(G) /\ \A j \in G : inflight[j].status # 0) =>
            /\ Cardinality({j \in G : inflight[j].status = 200}) = 1
            /\ \A j \in G : inflight[j].status \in {200, 401}

\* C5 witness: three such requests were answered, one 200 and two 401
C5_Witness ==
    \E i \in 1..Len(inflight) :
        LET G == SameSubmission(i) IN
        /\ Cardinality(G) = 3 /\ Concurrent(G)
        /\ Cardinality({j \in G : inflight[j].status = 200}) = 1
        /\ Cardinality({j \in G : inflight[j].status = 401}) = 2

\* the user rows of an email
RowsOf(tbl, email) == {u \in tbl : u.email = email}

\* C6: while the code stored by the latest send-otp for an email is not consumed
\* and less than ten minutes old, a verify-otp submitting it is answered 200
\* with user.email the email and a token, and consumes the challenge; a verify-otp
\* with the consumed code is then answered 401.
C6_Acceptance ==
    \A e \in Emails :
        /\ (hist[e].live # NoRow /\ now < hist[e].live.at + TenMinutes) =>
              \A name \in NameInputs, t2 \in ClockReadings :
                  LET r == verifyOtp(e, hist[e].live.otp, name, t2) IN
                  /\ r.res.status = 200
                  /\ r.res.user.email = e
                  /\ r.res.token # NoToken
                  /\ r.res.token.email = e
                  /\ ~HasChallenge(r.otps, e)
        /\ hist[e].consumed # <<>> =>
              /\ ~HasChallenge(otps, e)
              /\ \A name \in NameInputs :
                     verifyOtp(e, hist[e].consumed, name, now).res.status = 401

\* C6 witness: a code was issued for an email without a user row, less than ten
\* minutes ago, and a verify-otp with it is answered 200
C6_Witness ==
    \E e \in Emails :
        /\ hist[e].live # NoRow
        /\ now < hist[e].live.at + TenMinutes
        /\ ~HasUser(users, e)
        /\ verifyOtp(e, hist[e].live.otp, Undefined, now).res.status = 200

\* C7: a verify-otp with the live, unexpired code of an email that has a user
\* row is answered 200 with the id of that row, which is the id the previous
\* successful verification returned, and generates and inserts nothing; every
\* successful verify-otp leaves exactly one user row for its email.
C7_ResolveIdempotent ==
    \A e \in Emails :
        /\ hist[e].uid # 0 =>
              /\ Cardinality(RowsOf(users, e)) = 1
              /\ \A u \in RowsOf(users, e) : u.id = hist[e].uid
        /\ \A otp \in GeneratedCodes, name \in NameInputs, t2 \in ClockReadings :
               LET r == verifyOtp(e, otp, name, t2) IN
               /\ r.res.status = 200 => Cardinality(RowsOf(r.users, e)) = 1
               /\ (HasUser(users, e) /\ hist[e].live # NoRow /\ hist[e].live.otp = otp
                   /\ now < hist[e].live.at + TenMinutes) =>
                      /\ r.res.status = 200
                      /\ \A u \in RowsOf(users, e) : r.res.user.id = u.id
                      /\ r.users = users
                      /\ r.uuids = uuids

\* C7 witness: a verification has returned a user for the email, a new code was
\* issued since, and a verify-otp with it is answered 200 with the same id
C7_Witness ==
    \E e \in Emails :
        /\ hist[e].uid # 0
        /\ hist[e].live # NoRow
        /\ LET r == verifyOtp(e, hist[e].live.otp, "Ann", now) IN
           r.res.status = 200 /\ r.res.user.id = hist[e].uid

\* C8: whatever the order in which the verify-otp and send-otp requests for an
\* email without a user row are handled, the users table never holds more than
\* one row for the email, and holds exactly one once a verify-otp for it was
\* answered 200.
C8_ConcurrentRegistration ==
    \A e \in Emails :
        /\ Cardinality(RowsOf(users, e)) <= 1
        /\ (\/ hist[e].uid # 0
            \/ \E i \in 1..Len(inflight) :
                   inflight[i].email = e /\ inflight[i].status = 200) =>
              Cardinality(RowsOf(users, e)) = 1

\* C8 witness: two requests for the email were in flight together, a send-otp
\* was handled between them, both were answered 200 and one row exists
C8_Witness ==
    \E i, j \in 1..Len(inflight) :
        /\ i # j
        /\ inflight[i].email = inflight[j].email
        /\ inflight[i].status = 200 /\ inflight[j].status = 200
        /\ inflight[i].resent \/ inflight[j].resent
        /\ Cardinality(RowsOf(users, inflight[i].email)) = 1

\* C9: no step removes or changes a user row; a step that changes the users
\* table is no send-otp and no settling of a delivery, it is a verify-otp, not
\* one answered 400 or 401 but one answered 200 for an email that had no row
\* and no earlier successful verification, and it adds one row for that email.
C9_UserRowLifecycle ==
    [][/\ users \subseteq users'
       /\ users' # users =>
              /\ \A e \in EmailInputs, k \in RandNums : ~SendOtp(e, k)
              /\ \A i \in 1..Len(awaiting) :
                     /\ ~DeliveryRejects(i)
                     /\ \A result \in SendResults : ~DeliveryResolves(i, result)
              /\ \A e \in EmailInputs, otp \in OtpInputs, name \in NameInputs,
                    t2 \in ClockReadings :
                     VerifyOtp(e, otp, name, t2) =>
                         /\ verifyOtp(e, otp, name, t2).res.status = 200
                         /\ ~HasUser(users, e)
                         /\ hist[e].uid = 0
                         /\ \E u \in users' : u.email = e /\ users' = users \cup {u}
              /\ \E e \in Emails, otp \in GeneratedCodes, name \in NameInputs,
                    t2 \in ClockReadings : VerifyOtp(e, otp, name, t2)]_vars

\* C9 witness: both emails have the row their first successful verification
\* created, and a send-otp handled since awaits its delivery
C9_Witness ==
    /\ \A e \in Emails : \E u \in users : u.email = e /\ u.id = hist[e].uid
    /\ awaiting # <<>>

\* what the client receives of a response
Body(res) ==
    [status |-> res.status, message |-> res.message, user |-> res.user,
     token |-> res.token]

\* C10: a verify-otp with email and otp present gets the same response, 401
\* 'Invalid or expired OTP' without user or token, and changes nothing in the
\* store, when no challenge is stored for the email, when the stored code is
\* another one, and when the stored code is the submitted one and has expired.
C10_IndistinguishableRejection ==
    \A e \in Emails, otp \in GeneratedCodes, name \in NameInputs,
       t2 \in ClockReadings :
        LET record == getOTP(otps, e)
            r == verifyOtp(e, otp, name, t2)
            noChallenge == record = NoRow
            wrongCode == record # NoRow /\ record.otp # otp
            expired == record # NoRow /\ record.otp = otp /\ now > record.expires_at
        IN (noChallenge \/ wrongCode \/ expired) =>
               /\ Body(r.res) = [status |-> 401, message |-> Rejection,
                                 user |-> NoUser, token |-> NoToken]
               /\ r.otps = otps
               /\ r.users = users
               /\ r.uuids = uuids

\* C10 witness: one email has no challenge stored, the other has one that has
\* expired, so the three cases occur in one state
C10_Witness ==
    \E e1, e2 \in Emails :
        /\ getOTP(otps, e1) = NoRow
        /\ getOTP(otps, e2) # NoRow
        /\ now > getOTP(otps, e2).expires_at
        /\ \E otp \in GeneratedCodes : otp # getOTP(otps, e2).otp

\* a body without email: the field is absent or the empty string
AbsentEmails == {"", Undefined}

\* C11: a send-otp whose body has no email is answered 400 'Email is required';
\* it draws no code, leaves the otps table as it is and hands nothing to the
\* e-mail service.
C11_SendOtpMissingEmail ==
    \A email \in AbsentEmails, k \in RandNums :
        LET r == sendOtp(email, k) IN
        /\ r.thrown
        /\ r.res.status = 400
        /\ r.res.message = "Email is required"
        /\ r.res.ops = <<>>
        /\ r.otps = otps
        /\ r.mail = NoMail

\* C11 witness: challenges are stored and a delivery is pending when a send-otp
\* without email is answered 400
C11_Witness ==
    /\ otps # {}
    /\ awaiting # <<>>
    /\ sendOtp("", 0).res.status = 400

\* C12: a verify-otp whose body lacks email or otp is answered 400 'Email and
\* OTP are required' without any store operation: tables and id counter stay
\* as they are, no user and no token are returned, also when the email has a
\* live challenge.
C12_VerifyOtpMissingField ==
    \A email \in Emails \cup AbsentEmails, otp \in OtpInputs, name \in NameInputs,
       t2 \in ClockReadings :
        (email \in AbsentEmails \/ otp = <<>>) =>
            LET r == verifyOtp(email, otp, name, t2) IN
            /\ r.res.status = 400
            /\ r.res.message = "Email and OTP are required"
            /\ r.res.ops = <<>>
            /\ r.otps = otps
            /\ r.users = users
            /\ r.uuids = uuids
            /\ r.res.user = NoUser
            /\ r.res.token = NoToken

\* C12 witness: the email has a live, unexpired challenge whose code would be
\* accepted, and a verify-otp for it without otp is answered 400
C12_Witness ==
    \E e \in Emails :
        /\ hist[e].live # NoRow
        /\ verifyOtp(e, hist[e].live.otp, Undefined, now).res.status = 200
        /\ verifyOtp(e, <<>>, Undefined, now).res.status = 400

\* C13: a verify-otp answered 200 carries 'Authentication successful', the
\* user resolved for the request's email (the stored row when there is one) and
\* a token whose id and email claims are those of that user; the email is the
\* one whose challenge the request consumed.
C13_SuccessResponse ==
    \A email \in EmailInputs, otp \in OtpInputs, name \in NameInputs,
       t2 \in ClockReadings :
        LET r == verifyOtp(email, otp, name, t2) IN
        r.res.status = 200 =>
            /\ r.res.message = "Authentication successful"
            /\ r.res.user # NoUser
            /\ r.res.token # NoToken
            /\ r.res.user.email = email
            /\ r.res.token.id = r.res.user.id
            /\ r.res.token.email = r.res.user.email
            /\ HasUser(users, email) => r.res.user = getUser(users, email)
            /\ \E u \in r.users : u.email = email /\ u.id = r.res.token.id
            /\ HasChallenge(otps, email) /\ ~HasChallenge(r.otps, email)

\* C13 witness: one email with a user row and one without each have a live
\* challenge whose code is answered 200
C13_Witness ==
    \E e1, e2 \in Emails :
        /\ HasUser(users, e1) /\ ~HasUser(users, e2)
        /\ hist[e1].live # NoRow /\ hist[e2].live # NoRow
        /\ verifyOtp(e1, hist[e1].live.otp, "Ann", now).res.status = 200
        /\ verifyOtp(e2, hist[e2].live.otp, "Ann", now).res.status = 200

\* the e-mail service reported that the delivery failed
Failed(result) == result.error # "null"

\* C14: when the delivery of a send-otp fails, by a rejected promise or by a
\* resolved value that reports an error, the request is answered 500 and not
\* 200 'OTP sent successfully', and the challenge it stored stays: while it is
\* the live one and unexpired a verify-otp with its code is answered 200.
C14_DeliveryFailure ==
    \A i \in 1..Len(awaiting) :
        LET m == awaiting[i] IN
        /\ sendOtpRejected(m).status = 500
        /\ \A result \in SendResults :
               Failed(result) =>
                   /\ sendOtpResolved(m, result).status = 500
                   /\ sendOtpResolved(m, result).message # "OTP sent successfully"
        /\ (/\ hist[m.to].live # NoRow
            /\ hist[m.to].live.otp = m.otp
            /\ now < hist[m.to].live.at + TenMinutes) =>
               /\ HasChallenge(otps, m.to)
               /\ verifyOtp(m.to, m.otp, Undefined, now).res.status = 200

\* C15: the response of a send-otp is the same whatever code the request drew,
\* for each of its outcomes, and the code it stored is the one handed to the
\* e-mail service; two states that differ only in the otps table answer a
\* verify-otp with the same body whenever they answer it with the same status.
C15_CodeNotInResponse ==
    /\ [](\A email \in EmailInputs, k1 \in RandNums, k2 \in RandNums :
              LET r1 == sendOtp(email, k1)
                  r2 == sendOtp(email, k2)
              IN /\ r1.thrown = r2.thrown
                 /\ r1.thrown => Body(r1.res) = Body(r2.res)
                 /\ ~r1.thrown =>
                        /\ \A result \in SendResults :
                               Body(sendOtpResolved(r1.mail, result))
                                   = Body(sendOtpResolved(r2.mail, result))
                        /\ Body(sendOtpRejected(r1.mail)) = Body(sendOtpRejected(r2.mail))
                        /\ r1.mail.otp = getOTP(r1.otps, email).otp
                        /\ r1.mail.to = email)
    /\ [][(otps' # otps /\ users' = users /\ uuids' = uuids /\ now' = now) =>
              \A email \in Emails, otp \in OtpInputs, name \in NameInputs :
                  verifyOtp(email, otp, name, now).res.status
                          = (verifyOtp(email, otp, name, now).res.status)'
                      => Body(verifyOtp(email, otp, name, now).res)
                             = Body(verifyOtp(email, otp, name, now).res)']_vars

\* C15 witness: a send-otp replaced the code of an email by another one, so two
\* states that differ in the stored code have been compared
C15_Witness ==
    \E e \in Emails :
        /\ hist[e].replaced # <<>>
        /\ getOTP(otps, e) # NoRow
        /\ getOTP(otps, e).otp # hist[e].replaced
        /\ \E i \in 1..Len(awaiting) : awaiting[i].otp = getOTP(otps, e).otp

\* C16: a token is issued only when a signing secret is configured: no
\* verify-otp mints a token signed with the default secret.
C16_SecretConfigured ==
    \A email \in EmailInputs, otp \in OtpInputs, name \in NameInputs,
       t2 \in ClockReadings :
        LET r == verifyOtp(email, otp, name, t2) IN
        r.res.token # NoToken =>
            /\ jwtSecret # NoSecret
            /\ r.res.token.key # FallbackSecret

\* an error outcome has arrived as a JSON body {message} without a stack trace
JsonMessage(d) ==
    d.contentType = "application/json" /\ d.shape = "message" /\ ~d.stack

\* C17: every error outcome of send-otp (400, 500) and verify-otp (400, 401)
\* reaches the client with its status as a JSON body {message}, without a
\* stack trace.
C17_ErrorsAsJson ==
    \A env \in NodeEnvs :
        /\ \A email \in EmailInputs, k \in RandNums :
               LET r == sendOtp(email, k) IN
               /\ r.thrown => /\ r.res.status = 400
                              /\ JsonMessage(Delivered(r.res, env))
               /\ ~r.thrown => /\ sendOtpRejected(r.mail).status = 500
                               /\ JsonMessage(Delivered(sendOtpRejected(r.mail), env))
        /\ \A email \in EmailInputs, otp \in OtpInputs, name \in NameInputs :
               LET r == verifyOtp(email, otp, name, now) IN
               r.res.status >= 400 =>
                   /\ r.res.status \in {400, 401}
                   /\ JsonMessage(Delivered(r.res, env))

\* the email in lower case (over the emails of the model)
Lower(email) == IF email = "A@b.com" THEN "a@b.com" ELSE email

\* C18: the users table never holds two rows whose emails are equal in lower
\* case, and two emails that differ only in letter case never have different
\* user ids.
C18_EmailNormalized ==
    /\ \A u1, u2 \in users : Lower(u1.email) = Lower(u2.email) => u1 = u2
    /\ \A e1, e2 \in Emails :
           (Lower(e1) = Lower(e2) /\ hist[e1].uid # 0 /\ hist[e2].uid # 0) =>
               hist[e1].uid = hist[e2].uid

\* C19 as claimed: a verify-otp with the stored code is answered 401 'Invalid
\* or expired OTP' whenever now >= expires_at, the instant now = expires_at
\* included.
C19_ExpiryBoundary ==
    \A e \in Emails, name \in NameInputs, t2 \in ClockReadings :
        LET record == getOTP(otps, e) IN
        (record # NoRow /\ now >= record.expires_at) =>
            LET r == verifyOtp(e, record.otp, name, t2) IN
            /\ r.res.status = 401
            /\ r.res.message = Rejection

\* C19 amended: a verify-otp with the stored code is answered 401 'Invalid or
\* expired OTP' whenever now > expires_at; at the instant now = expires_at, ten
\* minutes after the send-otp, it is still answered 200.
C19_ExpiryStrict ==
    \A e \in Emails, name \in NameInputs, t2 \in ClockReadings :
        LET record == getOTP(otps, e)
            r == verifyOtp(e, record.otp, name, t2)
        IN record # NoRow =>
               /\ now > record.expires_at =>
                      r.res.status = 401 /\ r.res.message = Rejection
               /\ now = record.expires_at =>
                      r.res.status = 200 /\ r.res.token # NoToken
               /\ record.expires_at = hist[e].live.at + TenMinutes

\* C19 witness: the clock stands at the expiry of a stored challenge
C19_Witness ==
    \E row \in otps : now = row.expires_at /\ row.email \in Emails

\* the challenge rows of an email
ChallengesOf(tbl, email) == {row \in tbl : row.email = email}

\* C20: the otps table holds at most one row per email in every reachable
\* state; a send-otp leaves exactly one row for its email, the one it wrote,
\* and the rows of the other emails as they were.
C20_OneChallengePerEmail ==
    /\ \A e \in Emails : Cardinality(ChallengesOf(otps, e)) <= 1
    /\ \A e \in Emails, k \in RandNums :
           LET r == sendOtp(e, k) IN
           /\ ChallengesOf(r.otps, e)
                  = {[email |-> e, otp |-> generateOTP(k), expires_at |-> now + TenMinutes]}
           /\ \A other \in Emails \ {e} :
                  ChallengesOf(r.otps, other) = ChallengesOf(otps, other)

\* C20 witness: a challenge of the email was replaced by one with another code
\* and another expiry while the other email keeps its own
C20_Witness ==
    \E e, other \in Emails :
        /\ e # other
        /\ hist[e].replaced # <<>>
        /\ Cardinality(ChallengesOf(otps, e)) = 1
        /\ Cardinality(ChallengesOf(otps, other)) = 1
        /\ \A row \in ChallengesOf(otps, e) :
               row.otp # hist[e].replaced /\ row.expires_at > TenMinutes

\* C21: a verify-otp answered 401 leaves the otps table, the users table and
\* the id counter as they are, so the row of an expired challenge stays; as the
\* state after a failed attempt is the state before it, after any number of
\* them the live, unexpired code is still answered 200.
C21_FailedVerifyKeepsChallenge ==
    \A e \in Emails, otp \in GeneratedCodes, name \in NameInputs, t2 \in ClockReadings :
        LET r == verifyOtp(e, otp, name, t2) IN
        r.res.status = 401 =>
            /\ r.otps = otps
            /\ r.users = users
            /\ r.uuids = uuids
            /\ ChallengesOf(r.otps, e) = ChallengesOf(otps, e)
            /\ (hist[e].live # NoRow /\ now < hist[e].live.at + TenMinutes) =>
                   verifyOtp(e, hist[e].live.otp, name, t2).res.status = 200

\* C21 witness: one email has an unexpired challenge, for which a wrong code
\* is answered 401 and its own code 200, the other has an expired challenge
\* still stored, whose code is answered 401
C21_Witness ==
    \E e1, e2 \in Emails, wrong \in GeneratedCodes :
        /\ getOTP(otps, e1) # NoRow /\ getOTP(otps, e2) # NoRow
        /\ wrong # getOTP(otps, e1).otp
        /\ verifyOtp(e1, wrong, Undefined, now).res.status = 401
        /\ verifyOtp(e1, getOTP(otps, e1).otp, Undefined, now).res.status = 200
        /\ now > getOTP(otps, e2).expires_at
        /\ verifyOtp(e2, getOTP(otps, e2).otp, Undefined, now).res.status = 401

\* C22: no step removes a user row or changes its id, email, name or
\* created_at; a verify-otp answered 200 for an email that has a row returns
\* that row, with the stored name whatever name the request carries, and
\* leaves the users table as it is.
C22_UserRowsImmutable ==
    /\ [](\A e \in Emails, otp \in GeneratedCodes, name \in NameInputs,
             t2 \in ClockReadings :
              LET r == verifyOtp(e, otp, name, t2) IN
              /\ users \subseteq r.users
              /\ (HasUser(users, e) /\ r.res.status = 200) =>
                     /\ r.users = users
                     /\ r.res.user \in users
                     /\ r.res.user.email = e)
    /\ [][\A u \in users : u \in users']_vars

\* C22 witness: the row of an email stores the empty name and a verify-otp that
\* carries the name 'Ann' is answered 200 with the empty name
C22_Witness ==
    \E e \in Emails :
        /\ HasUser(users, e)
        /\ getUser(users, e).name = ""
        /\ hist[e].live # NoRow
        /\ LET r == verifyOtp(e, hist[e].live.otp, "Ann", now) IN
           r.res.status = 200 /\ r.res.user.name = ""

\* C23: no two user rows share an id, no two share an email, and the id the
\* generator gives next is the id of no row, so that with rows never removed
\* an id is never given to a second user.
C23_UniqueUsers ==
    /\ \A u1, u2 \in users : (u1.id = u2.id \/ u1.email = u2.email) => u1 = u2
    /\ \A u \in users : u.id # randomUUID(uuids)
    /\ \A e \in Emails, otp \in GeneratedCodes, name \in NameInputs,
          t2 \in ClockReadings :
           LET r == verifyOtp(e, otp, name, t2) IN
           \A u1 \in r.users, u2 \in r.users :
               (u1.id = u2.id \/ u1.email = u2.email) => u1 = u2

\* C23 witness: two users are registered, with different ids
C23_Witness ==
    \E u1, u2 \in users : u1.email # u2.email /\ u1.id # u2.id

\* C24: every stored challenge expires ten minutes after the send-otp that
\* stored it; the challenge rows of an email change only in a send-otp for
\* that email, which stores now + ten minutes, or in a verify-otp for it that
\* is answered 200, which removes the row.
C24_ExpiryFixedAtIssuance ==
    /\ [](\A row \in otps :
              /\ row.email \in Emails
              /\ hist[row.email].live # NoRow
              /\ row.otp = hist[row.email].live.otp
              /\ row.expires_at = hist[row.email].live.at + TenMinutes)
    /\ [][\A e \in Emails :
              ChallengesOf(otps, e)' # ChallengesOf(otps, e) =>
                  \/ /\ \E k \in RandNums : SendOtp(e, k)
                     /\ \A row \in ChallengesOf(otps, e)' :
                            row.expires_at = now + TenMinutes
                  \/ /\ \E otp \in GeneratedCodes, name \in NameInputs,
                           t2 \in ClockReadings :
                            /\ VerifyOtp(e, otp, name, t2)
                            /\ verifyOtp(e, otp, name, t2).res.status = 200
                     /\ ChallengesOf(otps, e)' = {}]_vars

\* C24 witness: time has passed since the send-otp that stored a challenge,
\* which still carries the expiry set then, and a later send-otp gave the
\* other email a later expiry
C24_Witness ==
    \E e1, e2 \in Emails :
        /\ getOTP(otps, e1) # NoRow /\ getOTP(otps, e2) # NoRow
        /\ now > hist[e1].live.at
        /\ getOTP(otps, e1).expires_at = hist[e1].live.at + TenMinutes
        /\ getOTP(otps, e2).expires_at > getOTP(otps, e1).expires_at

\* thirty days, in the seconds a token's claims are counted in
ThirtyDays == 30 * 24 * 60 * 60

\* C25: the token of every verify-otp answered 200 has issued-at equal to the
\* time of that request (in seconds) and expires-at equal to issued-at plus
\* thirty days, whoever the user is, whatever the challenge's expiry was and
\* whatever was issued before.
C25_TokenWindow ==
    \A e \in EmailInputs, otp \in OtpInputs, name \in NameInputs,
       t2 \in ClockReadings :
        LET r == verifyOtp(e, otp, name, t2) IN
        r.res.status = 200 =>
            /\ r.res.token.iat = t2 \div 1000
            /\ r.res.token.exp = r.res.token.iat + ThirtyDays

\* C25 witness: a user created earlier verifies again at a later time, with a
\* challenge that expires right then, and gets a token issued at that time
C25_Witness ==
    \E e \in Emails, otp \in GeneratedCodes, name \in NameInputs :
        LET r == verifyOtp(e, otp, name, now) IN
        /\ r.res.status = 200
        /\ getUser(users, e) # NoRow
        /\ getUser(users, e).created_at < now
        /\ getOTP(otps, e).expires_at = now
        /\ r.res.token.iat > 0

\* C26: a verify-otp answered 200 changes the store only by deleting the
\* challenge of its email and inserting at most one user row, for that email;
\* no row of the store has a field for a token, and the step changes no other
\* server state (the configuration, the suspended send-otp requests).
C26_StatelessSessions ==
    /\ [](\A e \in EmailInputs, otp \in OtpInputs, name \in NameInputs,
             t2 \in ClockReadings :
              LET r == verifyOtp(e, otp, name, t2) IN
              r.res.status = 200 =>
                  /\ ChallengesOf(otps, e) # {}
                  /\ r.otps = otps \ ChallengesOf(otps, e)
                  /\ users \subseteq r.users
                  /\ Cardinality(r.users \ users) <= 1
                  /\ \A u \in r.users \ users : u.email = e
                  /\ \A row \in r.otps : DOMAIN row = {"email", "otp", "expires_at"}
                  /\ \A u \in r.users :
                         DOMAIN u = {"id", "email", "name", "created_at"})
    /\ [][(otps' # otps /\ Cardinality(otps') < Cardinality(otps)) =>
              \E e \in Emails, otp \in GeneratedCodes, name \in NameInputs,
                 t2 \in ClockReadings :
                  /\ VerifyOtp(e, otp, name, t2)
                  /\ otps' = verifyOtp(e, otp, name, t2).otps
                  /\ users' = verifyOtp(e, otp, name, t2).users
                  /\ UNCHANGED <<jwtSecret, awaiting, inflight>>]_vars

\* C26 witness: a verification has succeeded for one email, whose challenge is
\* gone and whose user row is there, while the challenge of the other email,
\* stored before, is still stored
C26_Witness ==
    \E e1, e2 \in Emails :
        /\ e1 # e2
        /\ hist[e1].consumed # <<>>
        /\ getOTP(otps, e1) = NoRow
        /\ getUser(users, e1) # NoRow
        /\ getUser(users, e1).created_at > 0
        /\ getOTP(otps, e2) # NoRow
        /\ getOTP(otps, e2).expires_at = TenMinutes
        /\ getUser(users, e2) = NoRow

\* the codes in use: stored, or in a mail handed to delivery
CodesInUse == {row.otp : row \in otps} \cup {awaiting[i].otp : i \in 1..Len(awaiting)}

\* a string of exactly six decimal digits
SixDigits(code) == Len(code) = 6 /\ \A i \in 1..6 : code[i] \in 0..9

\* C28 as claimed: every code of the generator is a string of exactly six
\* decimal digits and the generator draws from all of 000000 through 999999,
\* so that codes beginning with each of the digits 0 to 9, 000000 among them,
\* can be issued.
C28_FullCodeSpace ==
    /\ \A code \in GeneratorRange \cup CodesInUse : SixDigits(code)
    /\ \A d \in 0..9 : \E code \in GeneratorRange : code[1] = d
    /\ <<0, 0, 0, 0, 0, 0>> \in GeneratorRange

\* what the generator can return: six decimal digits not beginning with 0,
\* from 100000 up to the 999... codes, with every first digit from 1 to 9
GeneratorSound ==
    /\ \A code \in GeneratorRange : SixDigits(code) /\ code[1] \in 1..9
    /\ \A d \in 1..9 : \E code \in GeneratorRange : code[1] = d
    /\ <<1, 0, 0, 0, 0, 0>> \in GeneratorRange
    /\ \E code \in GeneratorRange : \A i \in 1..3 : code[i] = 9

\* C28 amended: every code of the generator, and so every code stored or
\* mailed, is a string of exactly six decimal digits that does not begin with
\* 0; the generator draws from 100000 through 999999, both ends included, and
\* codes beginning with each of the digits 1 to 9 can be issued.
C28_CodeSpace ==
    /\ GeneratorSound
    /\ CodesInUse \subseteq GeneratorRange
    /\ \A code \in CodesInUse : SixDigits(code) /\ code[1] \in 1..9

\* C28 witness: codes from both ends of the generator's range are stored
C28_Witness ==
    \E r1, r2 \in otps :
        /\ r1.otp = <<1, 0, 0, 0, 0, 0>>
        /\ r2.otp[1] = 9
        /\ r1.otp \in GeneratorRange /\ r2.otp \in GeneratorRange

\* C29: a send-otp request writes its challenge to the store before it hands
\* the mail to delivery, hands over one mail, carrying the code it stored, and
\* is answered 200 'OTP sent successfully' only when delivery reported
\* success; every code handed to delivery was the stored challenge of its
\* recipient when it was handed over.
C29_StoreBeforeDeliver ==
    /\ [](\A i \in 1..Len(awaiting), result \in SendResults :
              LET res == sendOtpResolved(awaiting[i], result) IN
              /\ res.ops = <<"upsertOTP", "send">>
              /\ (res.status = 200 /\ res.message = "OTP sent successfully")
                     => ~Failed(result))
    /\ [][\A e \in Emails, k \in RandNums :
              SendOtp(e, k) =>
                  /\ Len(awaiting') = Len(awaiting) + 1
                  /\ awaiting'[Len(awaiting')].to = e
                  /\ getOTP(otps', e) # NoRow
                  /\ getOTP(otps', e).otp = awaiting'[Len(awaiting')].otp]_vars

\* C30: whenever the handler of a received verify-otp request runs, among
\* whatever send-otp requests for its email were handled before, the rows it
\* removes from otps are rows of its email that carry the code it submitted
\* and have not expired; it removes one exactly when it answers 200 and adds
\* or changes none.  A challenge stored since the request was received is kept
\* unless its code is the submitted one.
C30_DeletesOnlyValidated ==
    \A i \in 1..Len(inflight), t2 \in ClockReadings :
        LET q == inflight[i]
            r == verifyOtp(q.email, q.otp, q.name, t2)
            removed == otps \ r.otps
        IN q.status = 0 =>
               /\ r.otps \subseteq otps
               /\ \A row \in removed : /\ row.email = q.email
                                       /\ row.otp = q.otp
                                       /\ ~(now > row.expires_at)
               /\ Cardinality(removed) = IF r.res.status = 200 THEN 1 ELSE 0
               /\ (q.resent /\ getOTP(otps, q.email) # NoRow
                            /\ getOTP(otps, q.email).otp # q.otp)
                      => /\ r.res.status = 401
                         /\ getOTP(r.otps, q.email) = getOTP(otps, q.email)

\* C30 witness: a request whose code was the stored one when it was received
\* was handled after a send-otp replaced that code and was answered 401; the
\* new challenge is still stored
C30_Witness ==
    \E i \in 1..Len(inflight) :
        LET q == inflight[i] IN
        /\ q.exp # -1 /\ q.resent /\ q.status = 401
        /\ ~(now > q.exp)
        /\ getOTP(otps, q.email) # NoRow
        /\ getOTP(otps, q.email).otp # q.otp
        /\ hist[q.email].replaced = q.otp

\* C31: a send-otp or verify-otp request for an email, whatever its outcome,
\* leaves the challenge rows and the user rows of every other email as they
\* were; the end of a send-otp request, after its await, changes no table.
C31_PerEmailIsolation ==
    /\ [](\A e \in EmailInputs, e2 \in Emails :
              e2 # e =>
                  /\ \A k \in RandNums :
                         ChallengesOf(sendOtp(e, k).otps, e2) = ChallengesOf(otps, e2)
                  /\ \A otp \in OtpInputs, name \in NameInputs, t2 \in ClockReadings :
                         LET r == verifyOtp(e, otp, name, t2) IN
                         /\ ChallengesOf(r.otps, e2) = ChallengesOf(otps, e2)
                         /\ RowsOf(r.users, e2) = RowsOf(users, e2))
    /\ [][(\A e \in EmailInputs, k \in RandNums : SendOtp(e, k) => users' = users)
          /\ (Len(awaiting') < Len(awaiting) => UNCHANGED <<otps, users>>)]_vars

\* C31 witness: an email with a user row has a challenge stored at time 0;
\* later another email was sent a code, verified it and got its user row,
\* and the first email's challenge and user row are still as they were
C31_Witness ==
    \E e1, e2 \in Emails :
        /\ e1 # e2
        /\ getOTP(otps, e1) # NoRow
        /\ getOTP(otps, e1).expires_at = TenMinutes
        /\ getUser(users, e1) # NoRow
        /\ getUser(users, e1).created_at = 0
        /\ hist[e2].consumed # <<>>
        /\ getUser(users, e2) # NoRow
        /\ getUser(users, e2).created_at > 0

\* C32: when a verify-otp registers a new user, the user object of its 200
\* response is the row it stored, the one a later successful verification for
\* the email reads from the store: same id, email, name and creation
\* timestamp, also when the request supplied no name.
C32_ReturnedUserIsStoredRow ==
    \A e \in Emails, otp \in GeneratedCodes, name \in NameInputs,
       t2 \in ClockReadings :
        LET r == verifyOtp(e, otp, name, t2) IN
        (r.res.status = 200 /\ getUser(users, e) = NoRow) =>
            /\ getUser(r.users, e) # NoRow
            /\ r.res.user.id = getUser(r.users, e).id
            /\ r.res.user.email = getUser(r.users, e).email
            /\ r.res.user.name = getUser(r.users, e).name
            /\ r.res.user.created_at = getUser(r.users, e).created_at

\* what a client and the challenge table see of a send-otp with this body and
\* this draw, handled now: the response when the handler throws at once, the
\* responses of the two ways its await can end otherwise, and the row it
\* leaves for the email
SendOtpOutcome(email, k) ==
    LET r == sendOtp(email, k) IN
    IF r.thrown
    THEN [resolved |-> Body(r.res), rejected |-> Body(r.res),
          ops |-> r.res.ops, rows |-> ChallengesOf(r.otps, email)]
    ELSE [resolved |-> Body(sendOtpResolved(r.mail, CHOOSE x \in SendResults : ~Failed(x))),
          rejected |-> Body(sendOtpRejected(r.mail)),
          ops |-> sendOtpResolved(r.mail, CHOOSE x \in SendResults : TRUE).ops,
          rows |-> ChallengesOf(r.otps, email)]

\* C33: the response of a send-otp and the row it leaves in the challenge
\* table are fixed by the request body, the draw of the code and the time,
\* whether the email has a user row or not: a body with an email stores the
\* drawn code with now + ten minutes and is answered 200 'OTP sent
\* successfully' when the delivery's promise resolves; the handler's store
\* operations never include a read of users; and a step that registers the
\* email leaves the outcome of a send-otp for it as it was before the step.
C33_NoEnumeration ==
    /\ [](\A e \in Emails, k \in RandNums :
              LET o == SendOtpOutcome(e, k) IN
              /\ ~sendOtp(e, k).thrown
              /\ o.resolved = [status |-> 200, message |-> "OTP sent successfully",
                               user |-> NoUser, token |-> NoToken]
              /\ o.rows = {[email |-> e, otp |-> generateOTP(k),
                            expires_at |-> now + TenMinutes]}
              /\ \A j \in 1..Len(o.ops) : o.ops[j] \in {"upsertOTP", "send"})
    /\ [][\A e \in Emails :
              (HasUser(users', e) /\ ~HasUser(users, e) /\ now' = now) =>
                  \A k \in RandNums : SendOtpOutcome(e, k)' = SendOtpOutcome(e, k)]_vars

\* C33 witness: a send-otp is waiting for its delivery, for an email that has
\* a user row, while the other email has no user row and had its send-otp
\* answered: both have a challenge stored
C33_Witness ==
    \E e1, e2 \in Emails :
        /\ HasUser(users, e1) /\ ~HasUser(users, e2)
        /\ HasChallenge(otps, e1) /\ HasChallenge(otps, e2)
        /\ \E i \in 1..Len(awaiting) : awaiting[i].to = e1
        /\ \A i \in 1..Len(awaiting) : awaiting[i].to # e2

\* C34: in the client, isLoggedIn becomes true and auth_token is written only
\* when a verify-otp response with an ok status arrives, and the token written
\* is that response's; when a non-ok response arrives or the fetch fails,
\* isLoggedIn stays false and authError is set; isOtpSent becomes true only
\* when an ok send-otp response arrives; isVerifying is true exactly while an
\* attempt is pending and false again once it has completed.
C34_ClientLoginGating ==
    /\ [](/\ client.isVerifying <=> client.pc \in Pending
          /\ client.pc \in Pending => ~client.isLoggedIn
          /\ client.isLoggedIn => client.auth_token # NoToken)
    /\ [][/\ ((client'.isLoggedIn /\ ~client.isLoggedIn)
                 \/ client'.auth_token # client.auth_token) =>
                  /\ client.pc = "verify-response"
                  /\ Ok(client.response)
                  /\ client.response.token # NoToken
                  /\ client'.auth_token = client.response.token
                  /\ client'.isLoggedIn
          /\ (client'.isOtpSent /\ ~client.isOtpSent) =>
                  /\ client.pc = "send-response"
                  /\ Ok(client.response)
          /\ (client.pc \in Pending /\ client'.pc = "idle") =>
                  /\ ~client'.isVerifying
                  /\ (client.response = NoResponse \/ ~Ok(client.response) \/ FetchFails) =>
                         /\ ~client'.isLoggedIn
                         /\ client'.authError # Null
                         /\ client'.isOtpSent = client.isOtpSent
                         /\ client'.auth_token = client.auth_token]_vars

\* C34 witness: the client is logged in with the token of a user row for its
\* email; no attempt is pending and no error is shown
C34_Witness ==
    /\ client.isLoggedIn
    /\ ~client.isVerifying
    /\ client.authError = Null
    /\ client.auth_token # NoToken
    /\ \E u \in users : u.email = client.email /\ u.id = client.auth_token.id

\* C34, the error side: an attempt has failed; the client shows an error and
\* is neither logged in nor holding a token
C34_WitnessRejected ==
    /\ client.pc = "idle"
    /\ client.otp # <<>>
    /\ client.authError = "Unexpected token <"
    /\ ~client.isLoggedIn
    /\ client.auth_token = NoToken

====
